---- MODULE Spec2Model ----
(***************************************************************************)
(* LHAtoLCSC: the BOM matcher (src/src/lhatolcsc/core/matcher.py), the     *)
(* catalog query it is served by (src/tests/mock_lcsc_server.py,            *)
(* src/tests/mock_db.py), the API client's paging (api/client.py), the      *)
(* search history (gui/search_history.py) and the page buttons of the       *)
(* stock browser (gui/stock_browser.py).                                    *)
(*                                                                          *)
(* Python str values are TLA+ strings; Len, SubSeq and \o act on them.      *)
(* Python floats are exact rationals [n |-> numerator, d |-> denominator];  *)
(* binary rounding of the float products is not modelled.                   *)
(***************************************************************************)
EXTENDS Integers, Sequences, FiniteSets, TLC

VARIABLES
    confidence_threshold,  \* ComponentMatcher.confidence_threshold
    cache,                 \* ComponentMatcher.cache: key -> MatchResult
    items,                 \* the BOMItem objects, by identity
    remote,                \* the products the API client's search returns
    last,                  \* the most recent operation on the matcher and its outcome
    tpc,                   \* per thread: where it stands inside match_item
    tloc,                  \* per thread: the locals of its match_item call
    engine,                \* which catalog query serves the session: "server" or "db"
    db,                    \* the catalog snapshot: product codes in stored order
    session_keyword,       \* the search string of the session
    session_page_size,     \* the page size of the session
    session_page,          \* the next page the session asks for
    fetched,               \* the records of the pages received so far, concatenated
    resp,                  \* the last response of the catalog query
    probe,                 \* the last single-page request, its answer and the one before
    batch,                 \* the batch_match call in progress: its locals and its trace
    norm_text,             \* the string handed to normalize_text
    norm_calls,            \* the normalize_text calls made so far: argument and result
    scoring,               \* the scoring pass of one search request: its locals
    max_history,           \* SearchHistoryManager.max_history
    history,               \* SearchHistoryManager.history
    history_file,          \* the contents of search_history.json in config_dir
    reopened,              \* a second manager constructed on the same config_dir
    history_log,           \* the last call on the manager, and the valid terms added so
                           \* far, the most recently added first
    client,                \* a caller paging through LCSCClient.search_products: its
                           \* request, the pages received and the last SearchResult
    pager                  \* StockBrowserWindow: current_page, total_pages and the page
                           \* numbers of page_buttons

matcherVars == <<confidence_threshold, cache, items, remote, last>>
threadVars == <<tpc, tloc>>
queryVars == <<engine, db, session_keyword, session_page_size, session_page, fetched, resp,
               probe>>
batchVars == <<batch>>
textVars == <<norm_text, norm_calls>>
scoreVars == <<scoring>>
historyVars == <<max_history, history, history_file, reopened, history_log>>
clientVars == <<client>>
pagerVars == <<pager>>
utilVars == <<textVars, scoreVars, historyVars, clientVars, pagerVars>>
vars == <<confidence_threshold, cache, items, remote, last, tpc, tloc,
          engine, db, session_keyword, session_page_size, session_page, fetched, resp,
          probe, batch, utilVars>>

(***************************************************************************)
(* str helpers                                                             *)
(***************************************************************************)
Char(s, i) == SubSeq(s, i, i)

\* the last three pairs are the non-ASCII letters of normalize_text's glyphs, as
\* ASCII stand-ins:  [ capital omega -> $ omega,  ] capital i-circumflex -> ? ,
\* _ capital a-circumflex -> !
UpperChars == "ABCDEFGHIJKLMNOPQRSTUVWXYZ[]_"
LowerChars == "abcdefghijklmnopqrstuvwxyz$?!"

LowerChar(c) ==
    IF \E i \in 1..Len(UpperChars) : Char(UpperChars, i) = c
    THEN Char(LowerChars, CHOOSE i \in 1..Len(UpperChars) : Char(UpperChars, i) = c)
    ELSE c

RECURSIVE StrLower(_)
StrLower(text) ==
    CHOOSE r \in
        {IF Len(s) = 0 THEN ""
         ELSE IF Len(s) = 1 THEN LowerChar(s)
         ELSE StrLower(SubSeq(s, 1, Len(s) \div 2))
              \o StrLower(SubSeq(s, Len(s) \div 2 + 1, Len(s)))
         : s \in {text}} : TRUE

IsSpace(c) == c \in {" ", "\t", "\n", "\r"}

RECURSIVE LStrip(_)
LStrip(s) ==
    IF Len(s) > 0 /\ IsSpace(Char(s, 1)) THEN LStrip(SubSeq(s, 2, Len(s))) ELSE s

RECURSIVE RStrip(_)
RStrip(s) ==
    IF Len(s) > 0 /\ IsSpace(Char(s, Len(s))) THEN RStrip(SubSeq(s, 1, Len(s) - 1)) ELSE s

StrStrip(s) == RStrip(LStrip(s))

\* Python's `a in b` on str
StrIn(a, b) ==
    \E i \in 1..(Len(b) - Len(a) + 1) : SubSeq(b, i, i + Len(a) - 1) = a

Max2(a, b) == IF a >= b THEN a ELSE b
Min2(a, b) == IF a <= b THEN a ELSE b

RECURSIVE Gcd(_, _)
Gcd(a, b) == IF b = 0 THEN a ELSE Gcd(b, a % b)

\* exact rationals standing for Python floats
Rat(n, d) == LET g == Gcd(n, d) IN [n |-> n \div g, d |-> d \div g]
RatInt(k) == [n |-> k, d |-> 1]
RatAdd(x, y) == Rat(x.n * y.d + y.n * x.d, x.d * y.d)
RatMul(x, y) == Rat(x.n * y.n, x.d * y.d)
RatLt(x, y) == x.n * y.d < y.n * x.d
RatLe(x, y) == x.n * y.d <= y.n * x.d
RatGe(x, y) == RatLe(y, x)
RatGt(x, y) == RatLt(y, x)

(***************************************************************************)
(* rapidfuzz.fuzz as matcher.py calls it                                   *)
(***************************************************************************)
\* length of the longest common subsequence
RECURSIVE Lcs(_, _)
Lcs(a, b) ==
    IF Len(a) = 0 \/ Len(b) = 0 THEN 0
    ELSE IF Char(a, 1) = Char(b, 1)
         THEN 1 + Lcs(SubSeq(a, 2, Len(a)), SubSeq(b, 2, Len(b)))
         ELSE Max2(Lcs(SubSeq(a, 2, Len(a)), b), Lcs(a, SubSeq(b, 2, Len(b))))

\* fuzz.ratio: the normalized Indel similarity, 100 * 2*LCS / (len(a) + len(b))
FuzzRatio(a, b) ==
    IF Len(a) + Len(b) = 0 THEN RatInt(100)
    ELSE Rat(200 * Lcs(a, b), Len(a) + Len(b))

RatMaxOf(S) == CHOOSE x \in S : \A y \in S : RatGe(x, y)

\* the alignments rapidfuzz tries for a shorter string s1 in s2: the prefixes of
\* s2 shorter than s1, the windows of len(s1), and the suffixes of s2 up to len(s1)
PartialWindows(s1, s2) ==
    {SubSeq(s2, 1, k) : k \in 1..(Len(s1) - 1)}
        \cup {SubSeq(s2, i, i + Len(s1) - 1) : i \in 1..(Len(s2) - Len(s1) + 1)}
        \cup {SubSeq(s2, Len(s2) - k + 1, Len(s2)) : k \in 1..Len(s1)}

\* fuzz.partial_ratio: the best fuzz.ratio of the shorter string against these
\* alignments; strings of equal length are tried both ways round
PartialRatio(a, b) ==
    LET s1 == IF Len(a) <= Len(b) THEN a ELSE b
        s2 == IF Len(a) <= Len(b) THEN b ELSE a
        oneWay == {FuzzRatio(s1, w) : w \in PartialWindows(s1, s2)}
        otherWay == IF Len(a) = Len(b)
                    THEN {FuzzRatio(s2, w) : w \in PartialWindows(s2, s1)}
                    ELSE {}
    IN  IF Len(a) = 0 /\ Len(b) = 0 THEN RatInt(100)
        ELSE IF Len(s1) = 0 THEN RatInt(0)
        ELSE RatMaxOf(oneWay \cup otherWay)

(***************************************************************************)
(* api/models.py: the products, BOM items and match results                *)
(***************************************************************************)
MaxRemote == 2          \* most products the remote search holds for a keyword
MaxAlt == 2             \* largest max_alternatives a caller passes

\* LCSCProduct.from_dict fills product_name and manufacturer_part from the
\* same productModel key, and product_number from productCode
LCSCProduct(code, brand, model, intro) ==
    [product_number |-> code, manufacturer |-> brand, manufacturer_part |-> model,
     product_name |-> model, description |-> intro]

Products ==
    [c \in {"C1", "C2", "C3"} |->
        CASE c = "C1" -> LCSCProduct("C1", "uni", "R10K", "r10k")
          [] c = "C2" -> LCSCProduct("C2", "uni", "r10m", "r1xk")
          [] c = "C3" -> LCSCProduct("C3", "yag", "R10N", "r1yk")]

ProductCodes == DOMAIN Products
NoProduct == ""         \* Python None in MatchResult.lcsc_product

\* BOMItem as BOMItem(row_index, stock_part_name) constructs it
BOMItem(name) ==
    [stock_part_name |-> name, description |-> "", manufacturer |-> "", mpn |-> "",
     lcsc_part_number |-> "", match_confidence |-> RatInt(0), notes |-> ""]

BomNames == <<"r10k", " R10K ", "c1u">>
ItemIds == DOMAIN BomNames

MatchResult(item, product, score, method, alternatives) ==
    [bom_item |-> item, lcsc_product |-> product, match_score |-> score,
     match_method |-> method, alternatives |-> alternatives]

is_matched(result) == result.lcsc_product # NoProduct

(***************************************************************************)
(* api/client.py: LCSCClient.search_products, first page                   *)
(***************************************************************************)
max_page_size == 100

ClientSearch(keyword, page_size) ==
    LET sent == Min2(page_size, max_page_size)
    IN  [products |-> SubSeq(remote, 1, Min2(Len(remote), Max2(sent, 0))),
         total |-> Len(remote), current_page |-> 1, page_size |-> page_size]

(***************************************************************************)
(* core/matcher.py                                                         *)
(***************************************************************************)
RECURSIVE InsertBeforeEqual(_, _)
InsertBeforeEqual(sorted, x) ==
    IF Len(sorted) = 0 THEN <<x>>
    ELSE IF RatGt(Head(sorted)[2], x[2])
         THEN <<Head(sorted)>> \o InsertBeforeEqual(Tail(sorted), x)
         ELSE <<x>> \o sorted

\* list.sort(key=score, reverse=True) is stable: equal scores keep their order
RECURSIVE InsertByScore(_, _)
InsertByScore(sorted, x) ==
    IF Len(sorted) = 0 THEN <<x>>
    ELSE IF RatGe(Head(sorted)[2], x[2])
         THEN <<Head(sorted)>> \o InsertByScore(Tail(sorted), x)
         ELSE <<x>> \o sorted

RECURSIVE SortByScoreDesc(_)
SortByScoreDesc(scored) ==
    IF Len(scored) = 0 THEN <<>>
    ELSE InsertByScore(SortByScoreDesc(SubSeq(scored, 1, Len(scored) - 1)),
                       scored[Len(scored)])

\* the weighted score of one product (matcher.py 140-145)
WeightedScore(search_term, code) ==
    LET product == Products[code]
        name_score == FuzzRatio(StrLower(search_term), StrLower(product.product_name))
        mpn_score == FuzzRatio(StrLower(search_term), StrLower(product.manufacturer_part))
        desc_score == PartialRatio(StrLower(search_term), StrLower(product.description))
    IN  RatAdd(RatAdd(RatMul(name_score, Rat(5, 10)), RatMul(mpn_score, Rat(4, 10))),
               RatMul(desc_score, Rat(1, 10)))

\* the scores of every term against every product, computed once
ScoreTable ==
    [t \in {BomNames[i] : i \in ItemIds} |-> [c \in ProductCodes |-> WeightedScore(t, c)]]

ProductScore(search_term, code) == ScoreTable[search_term][code]

score_products(search_term, products) ==
    SortByScoreDesc([k \in 1..Len(products) |->
                        <<products[k], ProductScore(search_term, products[k])>>])

SliceFrom0(seq, stop) ==
    IF stop < 1 THEN <<>> ELSE SubSeq(seq, 1, Min2(stop, Len(seq)))

\* Python's seq[1:stop] for stop >= 0
SliceFrom1(seq, stop) ==
    IF Len(seq) < 2 \/ stop < 2 THEN <<>> ELSE SubSeq(seq, 2, Min2(stop, Len(seq)))

\* lower().strip() of every name, computed once
KeyTable == [t \in {BomNames[i] : i \in ItemIds} |-> StrStrip(StrLower(t))]
LowerTable == [t \in {BomNames[i] : i \in ItemIds} |-> StrLower(t)]

CacheKeyNoStrip(i) == LowerTable[items[i].stock_part_name]

\* cache_key = bom_item.stock_part_name.lower().strip()
CacheKey(i) == KeyTable[items[i].stock_part_name]

NoCall == [op |-> "none"]

\* no catalog session is open while the matcher is exercised
NoSession ==
    /\ engine = "none"
    /\ db = <<>>
    /\ session_keyword = ""
    /\ session_page_size = 0
    /\ session_page = 0
    /\ fetched = <<>>
    /\ resp = [op |-> "none"]
    /\ probe = [op |-> "none"]

\* no batch_match call has been made
NoBatch == [pc |-> "idle"]

\* the utilities outside the matcher and the catalog session are not in use
NoText ==
    /\ norm_text = ""
    /\ norm_calls = <<>>

\* no scoring pass is under way
NoScoring == [pc |-> "idle"]

\* no file, and no manager constructed
NoFile == [exists |-> FALSE]
NoManager == [constructed |-> FALSE]

NoHistory ==
    /\ max_history = 0
    /\ history = <<>>
    /\ history_file = NoFile
    /\ reopened = NoManager
    /\ history_log = [call |-> <<"none">>, recency |-> <<>>]

\* no caller is paging through the client
NoClient == [pc |-> "idle"]

\* no stock browser window is open
NoPager == [pc |-> "idle"]

NoUtil == NoText /\ scoring = NoScoring /\ NoHistory /\ client = NoClient /\ pager = NoPager

Threads == {1, 2}
NoLocals == [item |-> 0]

AcceptedStrict(best_score) == RatGt(best_score, RatInt(confidence_threshold))

AcceptedUpTo(best_score, threshold) == RatLe(best_score, RatInt(threshold))

\* lines 92, 94: best_score >= threshold
AcceptedAt(best_score, threshold) == RatGe(best_score, RatInt(threshold))

\* best_score >= self.confidence_threshold
Accepted(best_score) == AcceptedAt(best_score, confidence_threshold)

\* the MatchResult built from the scored candidates (matcher.py 81-96)
BuildResult(i, scored, max_alternatives) ==
    LET best_product == scored[1][1]
        best_score == scored[1][2]
        alternatives == [k \in DOMAIN SliceFrom1(scored, max_alternatives) |->
                            SliceFrom1(scored, max_alternatives)[k][1]]
        match_method == IF best_score = RatInt(100) THEN "exact" ELSE "fuzzy"
        accepted == Accepted(best_score)
    IN  MatchResult(i,
                    IF accepted THEN best_product ELSE NoProduct,
                    best_score,
                    IF accepted THEN match_method ELSE "none",
                    alternatives)

CacheStoreAlone(cache_key, result) == cache_key :> result

\* lines 72, 106: self.cache[cache_key] = result
CacheStore(cache_key, result) == (cache_key :> result) @@ cache

NoMatchResultScored(i) == MatchResult(i, NoProduct, RatInt(100), "none", <<>>)

\* lines 67-71: the result for a lookup without products; alternatives takes its
\* default, the empty list
NoMatchResult(i) == MatchResult(i, NoProduct, RatInt(0), "none", <<>>)

ErrorResultAsNone(i) == MatchResult(i, NoProduct, RatInt(0), "none", <<>>)

\* lines 113-117: the result built in the except branch
ErrorResult(i) == MatchResult(i, NoProduct, RatInt(0), "error", <<>>)

CallRecord(i, max_alternatives, result, outcome, scored) ==
    [op |-> "match", item |-> i, max_alternatives |-> max_alternatives,
     key |-> CacheKey(i), result |-> result, outcome |-> outcome,
     lookup |-> outcome # "hit", scored |-> scored]

\* match_item(bom_item, max_alternatives); `raises` is whether the API client
\* raises during search_products
match_item(i, max_alternatives, raises) ==
    LET cache_key == CacheKey(i)
        name == items[i].stock_part_name
    IN  IF cache_key \in DOMAIN cache
        THEN /\ last' = CallRecord(i, max_alternatives, cache[cache_key], "hit", <<>>)
             /\ UNCHANGED <<cache, items>>
        ELSE IF raises
        THEN /\ items' = [items EXCEPT ![i].notes = "Error"]
             /\ last' = CallRecord(i, max_alternatives, ErrorResult(i), "error", <<>>)
             /\ UNCHANGED cache
        ELSE LET search_result == ClientSearch(name, max_alternatives + 5)
             IN  IF Len(search_result.products) = 0
                 THEN LET result == NoMatchResult(i)
                      IN  /\ cache' = CacheStore(cache_key, result)
                          /\ last' = CallRecord(i, max_alternatives, result, "empty", <<>>)
                          /\ UNCHANGED items
                 ELSE LET scored == score_products(name, search_result.products)
                          result == BuildResult(i, scored, max_alternatives)
                          best == Products[scored[1][1]]
                      IN  /\ items' = IF is_matched(result)
                                      THEN [items EXCEPT
                                              ![i].lcsc_part_number = best.product_number,
                                              ![i].manufacturer = best.manufacturer,
                                              ![i].mpn = best.manufacturer_part,
                                              ![i].description = best.description,
                                              ![i].match_confidence = scored[1][2]]
                                      ELSE items
                          /\ cache' = CacheStore(cache_key, result)
                          /\ last' = CallRecord(i, max_alternatives, result, "scored", scored)

MatchItem ==
    \E i \in ItemIds, max_alternatives \in 0..MaxAlt :
        \E raises \in IF CacheKey(i) \in DOMAIN cache THEN {FALSE} ELSE BOOLEAN :
        /\ match_item(i, max_alternatives, raises)
        /\ UNCHANGED <<confidence_threshold, remote, threadVars, queryVars, batchVars, utilVars>>

clear_cache ==
    /\ cache' = <<>>
    /\ last' = [op |-> "clear"]
    /\ UNCHANGED <<confidence_threshold, items, remote, threadVars, queryVars, batchVars, utilVars>>

\* line 22: confidence_threshold: int = 75
DefaultThreshold == 75

Thresholds == {DefaultThreshold, 90}

RECURSIVE SeqsNoRepeat(_, _)
SeqsNoRepeat(S, n) ==
    IF n = 0 THEN {<<>>}
    ELSE LET shorter == SeqsNoRepeat(S, n - 1)
         IN  shorter \cup {Append(q, x) : q \in {r \in shorter : Len(r) = n - 1},
                                          x \in S}

Range(seq) == {seq[k] : k \in DOMAIN seq}
Distinct(seq) == Cardinality(Range(seq)) = Len(seq)

MatcherInit ==
    /\ confidence_threshold \in Thresholds
    /\ cache = <<>>
    /\ items = [i \in ItemIds |-> BOMItem(BomNames[i])]
    /\ remote \in {q \in SeqsNoRepeat(ProductCodes, MaxRemote) : Distinct(q)}
    /\ last = NoCall
    /\ tpc = [t \in Threads |-> "idle"]
    /\ tloc = [t \in Threads |-> NoLocals]
    /\ NoSession
    /\ batch = NoBatch
    /\ NoUtil

MatcherNext == MatchItem \/ clear_cache

SpecMatch == MatcherInit /\ [][MatcherNext]_vars

(***************************************************************************)
(* match_item run by several threads on one matcher: the cache test, the   *)
(* search call and the scoring with the cache write are separate steps,    *)
(* and no lock is held between them (there is none in matcher.py)          *)
(***************************************************************************)
DefaultMaxAlternatives == 5

\* lines 52-55: the cache test; a hit returns at once
TCheck(t) ==
    \E i \in ItemIds :
        /\ tpc[t] = "idle"
        /\ IF CacheKey(i) \in DOMAIN cache
           THEN UNCHANGED <<tpc, tloc>>
           ELSE /\ tpc' = [tpc EXCEPT ![t] = "lookup"]
                /\ tloc' = [tloc EXCEPT ![t] = [item |-> i]]
        /\ UNCHANGED <<matcherVars, queryVars, batchVars, utilVars>>

\* lines 57-73 and 111-119: the search call returns or raises
TLookup(t) ==
    \E raises \in BOOLEAN :
        LET i == tloc[t].item
            search_result == ClientSearch(items[i].stock_part_name,
                                          DefaultMaxAlternatives + 5)
        IN  /\ tpc[t] = "lookup"
            /\ IF raises
               THEN /\ items' = [items EXCEPT ![i].notes = "Error"]
                    /\ tpc' = [tpc EXCEPT ![t] = "idle"]
                    /\ tloc' = [tloc EXCEPT ![t] = NoLocals]
                    /\ UNCHANGED cache
               ELSE IF Len(search_result.products) = 0
               THEN /\ cache' = CacheStore(CacheKey(i), NoMatchResult(i))
                    /\ tpc' = [tpc EXCEPT ![t] = "idle"]
                    /\ tloc' = [tloc EXCEPT ![t] = NoLocals]
                    /\ UNCHANGED items
               ELSE /\ tpc' = [tpc EXCEPT ![t] = "score"]
                    /\ UNCHANGED <<tloc, cache, items>>
            /\ UNCHANGED <<confidence_threshold, remote, last, queryVars, batchVars, utilVars>>

\* lines 76-109: the scoring pass, the update of the BOM item, the cache write
TScore(t) ==
    LET i == tloc[t].item
        name == items[i].stock_part_name
        scored == score_products(name,
                      ClientSearch(name, DefaultMaxAlternatives + 5).products)
        result == BuildResult(i, scored, DefaultMaxAlternatives)
        best == Products[scored[1][1]]
    IN  /\ tpc[t] = "score"
        /\ items' = IF is_matched(result)
                    THEN [items EXCEPT
                            ![i].lcsc_part_number = best.product_number,
                            ![i].manufacturer = best.manufacturer,
                            ![i].mpn = best.manufacturer_part,
                            ![i].description = best.description,
                            ![i].match_confidence = scored[1][2]]
                    ELSE items
        /\ cache' = CacheStore(CacheKey(i), result)
        /\ tpc' = [tpc EXCEPT ![t] = "idle"]
        /\ tloc' = [tloc EXCEPT ![t] = NoLocals]
        /\ UNCHANGED <<confidence_threshold, remote, last, queryVars, batchVars, utilVars>>

ThreadNext == \E t \in Threads : TCheck(t) \/ TLookup(t) \/ TScore(t)

SpecThreads == MatcherInit /\ [][ThreadNext]_vars

(***************************************************************************)
(* core/matcher.py: ComponentMatcher.batch_match                           *)
(***************************************************************************)
MaxBatch == 3           \* most lines of a batch

\* the lists of BOM items a caller passes; an item may come more than once
BatchInputs == UNION {[1..n -> ItemIds] : n \in 0..MaxBatch}

CallbackArgsFromZero(i, total, item) == <<i, total, items[item].stock_part_name>>

\* line 179: progress_callback(i + 1, total, item.stock_part_name)
CallbackArgs(i, total, item) == <<i + 1, total, items[item].stock_part_name>>

\* lines 169-172: results = [], total = len(bom_items); progress_callback is
\* TRUE when the caller passes one
BatchStart ==
    \E bom_items \in BatchInputs, progress_callback \in BOOLEAN :
        /\ batch.pc = "idle"
        /\ batch' = [pc |-> "loop", bom_items |-> bom_items, total |-> Len(bom_items),
                     i |-> 0, results |-> <<>>,
                     progress_callback |-> progress_callback, trace |-> <<>>]
        /\ UNCHANGED <<matcherVars, threadVars, queryVars, utilVars>>

\* lines 174-176: result = self.match_item(item); results.append(result)
BatchMatch ==
    LET item == batch.bom_items[batch.i + 1]
    IN  /\ batch.pc = "loop"
        /\ batch.i < batch.total
        /\ \E raises \in IF CacheKey(item) \in DOMAIN cache THEN {FALSE} ELSE BOOLEAN :
               match_item(item, DefaultMaxAlternatives, raises)
        /\ batch' = [batch EXCEPT
                       !.results = Append(@, last'.result),
                       !.trace = Append(@, <<"match", batch.i + 1>>),
                       !.pc = IF batch.progress_callback THEN "callback" ELSE "loop",
                       !.i = IF batch.progress_callback THEN @ ELSE @ + 1]
        /\ UNCHANGED <<confidence_threshold, remote, threadVars, queryVars, utilVars>>

\* lines 178-179: the callback, then the next turn of the loop
BatchCallback ==
    /\ batch.pc = "callback"
    /\ batch' = [batch EXCEPT
                   !.trace = Append(@, <<"callback">> \o
                                 CallbackArgs(batch.i, batch.total,
                                              batch.bom_items[batch.i + 1])),
                   !.pc = "loop",
                   !.i = @ + 1]
    /\ UNCHANGED <<matcherVars, threadVars, queryVars, utilVars>>

\* lines 181-182: return results
BatchReturn ==
    /\ batch.pc = "loop"
    /\ batch.i = batch.total
    /\ batch' = [batch EXCEPT !.pc = "done"]
    /\ UNCHANGED <<matcherVars, threadVars, queryVars, utilVars>>

BatchNext == BatchStart \/ BatchMatch \/ BatchCallback \/ BatchReturn

SpecBatch == MatcherInit /\ [][BatchNext]_vars

(***************************************************************************)
(* tests/mock_lcsc_server.py: the catalog and search_products              *)
(***************************************************************************)
MaxCatalog == 2         \* most products in a catalog snapshot
MaxPageSize == 2        \* largest page size a session asks for

\* a product dict; prices are whole numbers, a price tier is
\* <<startNumber, productPrice>>
Product(code, model, name, package, stock, prices) ==
    [productCode |-> code, productModel |-> model, productName |-> name,
     brandName |-> "", packageType |-> package, productIntroEn |-> "",
     parentCatalogName |-> "", stockNumber |-> stock, productPriceList |-> prices]

MOCK_PRODUCTS ==
    [c \in {"C1", "C2", "C3", "C4", "C5"} |->
        CASE c = "C1" -> Product("C1", "10K0603", "RES 10K", "0603", 1000,
                                 <<<<1, 10>>, <<100, 3>>>>)
          [] c = "C2" -> Product("C2", "10K0805", "RES 10K", "0805", 500,
                                 <<<<1, 20>>>>)
          [] c = "C3" -> Product("C3", "10K0603B", "RES 10K", "0603", 2000,
                                 <<<<1, 5>>, <<100, 30>>>>)
          [] c = "C4" -> Product("C4", "1U0603", "CAP 1U", "0603", 0,
                                 <<<<1, 0>>>>)
          [] c = "C5" -> Product("C5", "10K0805B", "RES 10K", "0805", 500,
                                 <<<<1, 20>>>>)]

CatalogCodes == DOMAIN MOCK_PRODUCTS

\* the search strings a session sends
Keywords == {"", "10k", "10K 0603", "1070", "model"}

\* The operators of this section read their arguments through a bound variable
\* (x \in {argument}), so that an argument is evaluated once however often the
\* body reads it; The(S) is the element of the singleton S.
The(S) == CHOOSE r \in S : TRUE

\* str.replace(old, new)
RECURSIVE StrReplace(_, _, _)
StrReplace(text, old, new) ==
    The({IF Len(s) < Len(o) THEN s
         ELSE IF SubSeq(s, 1, Len(o)) = o
              THEN n \o StrReplace(SubSeq(s, Len(o) + 1, Len(s)), o, n)
              ELSE Char(s, 1) \o StrReplace(SubSeq(s, 2, Len(s)), o, n)
         : s \in {text}, o \in {old}, n \in {new}})

\* str.split(): the maximal runs of non-space characters
RECURSIVE SplitFrom(_, _)
SplitFrom(text, word) ==
    The({IF Len(s) = 0 THEN (IF Len(w) = 0 THEN <<>> ELSE <<w>>)
         ELSE IF IsSpace(Char(s, 1))
              THEN (IF Len(w) = 0 THEN <<>> ELSE <<w>>)
                   \o SplitFrom(SubSeq(s, 2, Len(s)), "")
              ELSE SplitFrom(SubSeq(s, 2, Len(s)), w \o Char(s, 1))
         : s \in {text}, w \in {word}})

StrSplit(s) == SplitFrom(s, "")

\* ' '.join(words)
RECURSIVE StrJoin(_)
StrJoin(words) ==
    The({IF Len(ws) = 0 THEN ""
         ELSE IF Len(ws) = 1 THEN ws[1]
         ELSE ws[1] \o " " \o StrJoin(Tail(ws))
         : ws \in {words}})

\* The glyphs of normalize_text, written with ASCII stand-ins:
\*   $ omega   # micro sign   @ mu   ^ degree   ~ plus-minus   { <=   } >=
\*   ? i-circumflex   ! a-circumflex   & copyright   % per-mille   * currency   | yen
\* (the last six are the characters a mis-decoded glyph lowercases to)
Replacements ==
    << <<"$", "ohm">>, <<"$", "ohm">>, <<"?&", "ohm">>,
       <<"#", "u">>, <<"@", "u">>, <<"!#", "u">>,
       <<"^", "deg">>, <<"!^", "deg">>,
       <<"~", "+/-">>, <<"!~", "+/-">>,
       <<"{", "<=">>, <<"!%*", "<=">>,
       <<"}", ">=">>, <<"!%|", ">=">> >>

RECURSIVE ReplaceAll(_, _)
ReplaceAll(text, from) ==
    The({IF k > Len(Replacements) THEN s
         ELSE ReplaceAll(StrReplace(s, Replacements[k][1], Replacements[k][2]), k + 1)
         : s \in {text}, k \in {from}})

\* normalize_text with lower() moved behind the replacements
normalize_textLowerLast(text) == StrJoin(StrSplit(StrLower(ReplaceAll(text, 1))))

\* lines 684-696
normalize_text(text) == StrJoin(StrSplit(ReplaceAll(StrLower(text), 1)))

\* difflib.SequenceMatcher: the length of the common run at a[i:], b[j:]
RECURSIVE CommonRun(_, _, _, _)
CommonRun(a, b, ai, bj) ==
    The({IF i > Len(a) \/ j > Len(b) \/ Char(a, i) # Char(b, j) THEN 0
         ELSE 1 + CommonRun(a, b, i + 1, j + 1)
         : i \in {ai}, j \in {bj}})

\* find_longest_match: the longest block, the earliest in a, then in b
LongestMatch(a, b) ==
    The({CHOOSE m \in blocks :
            \A o \in blocks :
                \/ m[3] > o[3]
                \/ (m[3] = o[3] /\ m[1] < o[1])
                \/ (m[3] = o[3] /\ m[1] = o[1] /\ m[2] <= o[2])
         : blocks \in {{<<i, j, CommonRun(a, b, i, j)>> :
                           i \in 1..Len(a), j \in 1..Len(b)}}})

\* get_matching_blocks: the matched characters, left and right of the longest block
RECURSIVE MatchedChars(_, _)
MatchedChars(s1, s2) ==
    The({IF Len(a) = 0 \/ Len(b) = 0 THEN 0
         ELSE The({IF m[3] = 0 THEN 0
                   ELSE m[3]
                        + MatchedChars(SubSeq(a, 1, m[1] - 1), SubSeq(b, 1, m[2] - 1))
                        + MatchedChars(SubSeq(a, m[1] + m[3], Len(a)),
                                       SubSeq(b, m[2] + m[3], Len(b)))
                   : m \in {LongestMatch(a, b)}})
         : a \in {s1}, b \in {s2}})

\* SequenceMatcher(None, s1.lower(), s2.lower()).ratio()
fuzzy_ratio(s1, s2) ==
    The({IF Len(a) + Len(b) = 0 THEN RatInt(1)
         ELSE Rat(2 * MatchedChars(a, b), Len(a) + Len(b))
         : a \in {StrLower(s1)}, b \in {StrLower(s2)}})

FieldNames == <<"code", "model", "name", "brand", "package", "intro", "category">>

FieldsOf(product) ==
    [f \in Range(FieldNames) |->
        CASE f = "code" -> product.productCode
          [] f = "model" -> product.productModel
          [] f = "name" -> product.productName
          [] f = "brand" -> product.brandName
          [] f = "package" -> product.packageType
          [] f = "intro" -> product.productIntroEn
          [] f = "category" -> product.parentCatalogName]

Abs(x) == IF x < 0 THEN -x ELSE x

\* the best fuzzy_ratio of the keyword against the field and its words of similar
\* length (lines 740-751)
RECURSIVE BestWordScore(_, _, _)
BestWordScore(keyword, words, best) ==
    The({IF Len(ws) = 0 THEN field_score
         ELSE The({BestWordScore(kw, Tail(ws),
                       IF /\ Len(Head(ws)) >= 4
                          /\ Abs(Len(Head(ws)) - Len(kw)) <= 3
                          /\ RatGt(word_score, field_score)
                       THEN word_score ELSE field_score)
                   : word_score \in {fuzzy_ratio(kw, Head(ws))}})
         : kw \in {keyword}, ws \in {words}, field_score \in {best}})

\* the unweighted score of one field for one keyword (lines 734-753)
FieldScore(keyword, field) ==
    The({IF StrIn(kw, field_value) THEN RatInt(1)
         ELSE IF Len(kw) >= 4 /\ Len(field_value) <= 100
              THEN BestWordScore(kw, StrSplit(field_value), fuzzy_ratio(kw, field_value))
              ELSE RatInt(0)
         : kw \in {keyword}, field_value \in {field}})

\* lines 755-759: the boost of a field's score
FieldWeight(field_name) ==
    IF field_name \in {"code", "model"} THEN Rat(15, 10)
    ELSE IF field_name \in {"name", "brand"} THEN Rat(12, 10)
    ELSE RatInt(1)

\* lines 729-762: the fields in dict order, keeping the best weighted score
RECURSIVE BestFieldScore(_, _, _, _)
BestFieldScore(keyword, fields, from, best) ==
    The({IF k > Len(FieldNames) THEN best_field_score
         ELSE The({BestFieldScore(kw, normalized_fields, k + 1,
                       IF /\ Len(normalized_fields[FieldNames[k]]) > 0
                          /\ RatGt(field_score, best_field_score)
                       THEN field_score ELSE best_field_score)
                   : field_score \in
                       {RatMul(FieldScore(kw, normalized_fields[FieldNames[k]]),
                               FieldWeight(FieldNames[k]))}})
         : kw \in {keyword}, normalized_fields \in {fields}, k \in {from},
           best_field_score \in {best}})

FuzzyThreshold == Rat(75, 100)

\* lines 720-768: the score of one keyword and whether it counts as matched
KeywordScore(product, raw_keyword) ==
    The({IF StrIn(kw, StrJoin([k \in DOMAIN FieldNames |->
                                  normalized_fields[FieldNames[k]]]))
         THEN [score |-> RatInt(1), matched |-> TRUE]
         ELSE The({[score |-> best, matched |-> RatGe(best, FuzzyThreshold)]
                   : best \in {BestFieldScore(kw, normalized_fields, 1, RatInt(0))}})
         : kw \in {normalize_text(raw_keyword)},
           normalized_fields \in
               {[f \in Range(FieldNames) |-> normalize_text(FieldsOf(product)[f])]}})

RECURSIVE SumScores(_)
SumScores(scores) ==
    The({IF Len(seq) = 0 THEN RatInt(0)
         ELSE RatAdd(Head(seq).score, SumScores(Tail(seq)))
         : seq \in {scores}})

\* line 779: if keyword_matches < len(keywords): return 0.0
AllKeywordsMatched(per_keyword, keywords) ==
    Cardinality({k \in DOMAIN per_keyword : per_keyword[k].matched}) >= Len(keywords)

\* score_product(product, keywords)
score_product(product, keyword_list) ==
    The({IF Len(keywords) = 0 THEN RatInt(1)
         ELSE The({IF ~AllKeywordsMatched(per_keyword, keywords) THEN RatInt(0)
                   ELSE RatAdd(RatMul(RatMul(SumScores(per_keyword),
                                             Rat(1, Len(keywords))),
                                      Rat(7, 10)),
                               RatMul(Rat(Cardinality({k \in DOMAIN per_keyword :
                                                          per_keyword[k].matched}),
                                          Len(keywords)),
                                      Rat(3, 10)))
                   : per_keyword \in
                       {[k \in DOMAIN keywords |-> KeywordScore(product, keywords[k])]}})
         : keywords \in {keyword_list}})

\* lines 794, 802: keyword = data.get('keyword', '').strip(); keyword.split()
ServerKeywords(raw) == StrSplit(StrStrip(raw))

\* the score of every product of the pool for every search string, computed once
ServerScoreTable ==
    [kw \in Keywords |->
        [c \in CatalogCodes |-> score_product(MOCK_PRODUCTS[c], ServerKeywords(kw))]]

\* a slice bound as Python reads it: a negative bound counts from the end, and
\* bounds outside the list are clipped
PyBound(k, n) == IF k < 0 THEN Max2(k + n, 0) ELSE Min2(k, n)

PySliceWrapped(seq, start, end) ==
    IF start >= Len(seq) THEN seq
    ELSE SubSeq(seq, PyBound(start, Len(seq)) + 1, PyBound(end, Len(seq)))

\* Python's seq[start:end]
PySlice(seq, start, end) ==
    SubSeq(seq, PyBound(start, Len(seq)) + 1, PyBound(end, Len(seq)))

PageEndPlusOne(start, size) == start + size + 1

\* line 821: end = start + page_size
PageEnd(start, size) == start + size

\* lines 804-834: score, filter, sort by score, paginate
ServerSearch(catalog, raw_keyword, current_page, size) ==
    LET scored_all == [k \in DOMAIN catalog |->
                          <<catalog[k], ServerScoreTable[raw_keyword][catalog[k]]>>]
        scored_results == SelectSeq(scored_all, LAMBDA x : RatGt(x[2], RatInt(0)))
        sorted == SortByScoreDesc(scored_results)
        results == [k \in DOMAIN sorted |-> sorted[k][1]]
        start == (current_page - 1) * size
    IN  [op |-> "search", total |-> Len(results), current_page |-> current_page,
         page_size |-> size, productList |-> PySlice(results, start, PageEnd(start, size))]

(***************************************************************************)
(* tests/mock_db.py: MockDatabase.search_products                          *)
(***************************************************************************)
Digits == "0123456789"

\* str(n) for n >= 0
RECURSIVE IntToStr(_)
IntToStr(n) ==
    IF n < 10 THEN Char(Digits, n + 1)
    ELSE IntToStr(n \div 10) \o Char(Digits, (n % 10) + 1)

JsonStr(s) == "\"" \o s \o "\""

JsonTier(tier) ==
    "{" \o JsonStr("startNumber") \o ": " \o JsonStr(IntToStr(tier[1])) \o ", "
        \o JsonStr("productPrice") \o ": " \o JsonStr(IntToStr(tier[2])) \o "}"

RECURSIVE JsonTiers(_)
JsonTiers(tiers) ==
    IF Len(tiers) = 0 THEN ""
    ELSE IF Len(tiers) = 1 THEN JsonTier(tiers[1])
    ELSE JsonTier(tiers[1]) \o ", " \o JsonTiers(Tail(tiers))

\* json.dumps(product), the product_data column (import_from_json, line 160)
JsonDumps(product) ==
    "{" \o JsonStr("productCode") \o ": " \o JsonStr(product.productCode) \o ", "
        \o JsonStr("productModel") \o ": " \o JsonStr(product.productModel) \o ", "
        \o JsonStr("productName") \o ": " \o JsonStr(product.productName) \o ", "
        \o JsonStr("brandName") \o ": " \o JsonStr(product.brandName) \o ", "
        \o JsonStr("packageType") \o ": " \o JsonStr(product.packageType) \o ", "
        \o JsonStr("productIntroEn") \o ": " \o JsonStr(product.productIntroEn) \o ", "
        \o JsonStr("parentCatalogName") \o ": " \o JsonStr(product.parentCatalogName) \o ", "
        \o JsonStr("stockNumber") \o ": " \o JsonStr(IntToStr(product.stockNumber)) \o ", "
        \o JsonStr("productPriceList") \o ": [" \o JsonTiers(product.productPriceList) \o "]}"

\* SQL: text LIKE pattern, where % is any run of characters and _ any one character
RECURSIVE SqlLike(_, _)
SqlLike(text, pattern) ==
    IF Len(pattern) = 0 THEN Len(text) = 0
    ELSE IF Char(pattern, 1) = "%"
         THEN \E skip \in 0..Len(text) :
                  SqlLike(SubSeq(text, skip + 1, Len(text)),
                          SubSeq(pattern, 2, Len(pattern)))
    ELSE /\ Len(text) > 0
         /\ Char(pattern, 1) \in {"_", Char(text, 1)}
         /\ SqlLike(SubSeq(text, 2, Len(text)), SubSeq(pattern, 2, Len(pattern)))

\* line 261: keywords = keyword.strip().lower().split()
DbKeywords(raw) == StrSplit(StrLower(StrStrip(raw)))

\* line 224: if not keyword or keyword.strip() == ''
DbBrowse(raw) == Len(raw) = 0 \/ StrStrip(raw) = ""

\* lower(product_data) of every product of the pool, computed once
ProductDataLower == [c \in CatalogCodes |-> StrLower(JsonDumps(MOCK_PRODUCTS[c]))]

\* lines 274-279: lower(product_data) LIKE '%kw%' for every keyword
DbWhere(code, keywords) ==
    \A k \in DOMAIN keywords :
        SqlLike(ProductDataLower[code], "%" \o keywords[k] \o "%")

\* which products of the pool each search string selects, computed once
DbWhereTable ==
    [kw \in Keywords |->
        [c \in CatalogCodes |-> DbBrowse(kw) \/ DbWhere(c, DbKeywords(kw))]]

PositivePrices(product) ==
    {product.productPriceList[k][2] : k \in
        {j \in DOMAIN product.productPriceList : product.productPriceList[j][2] > 0}}

SqlNull == -1

\* the ORDER BY subquery: MIN(productPrice) over the tiers with productPrice > 0
\* (an aggregate without GROUP BY yields one row, so ORDER BY and LIMIT 1 change
\* nothing); NULL when no tier has a positive price
MinPositivePrice(product) ==
    IF PositivePrices(product) = {} THEN SqlNull
    ELSE CHOOSE p \in PositivePrices(product) : \A q \in PositivePrices(product) : p <= q

\* the characters of product codes in their collating order
CodeChars == "0123456789ABCDEFGHIJKLMNOPQRSTUVWXYZ"

CharRank(c) == CHOOSE k \in 1..Len(CodeChars) : Char(CodeChars, k) = c

\* a < b on text (BINARY collation)
RECURSIVE StrLess(_, _)
StrLess(a, b) ==
    IF Len(b) = 0 THEN FALSE
    ELSE IF Len(a) = 0 THEN TRUE
    ELSE IF Char(a, 1) = Char(b, 1) THEN StrLess(SubSeq(a, 2, Len(a)), SubSeq(b, 2, Len(b)))
    ELSE CharRank(Char(a, 1)) < CharRank(Char(b, 1))

DbRowBeforeNoCode(x, y) ==
    LET px == MinPositivePrice(MOCK_PRODUCTS[x])
        py == MinPositivePrice(MOCK_PRODUCTS[y])
    IN  \/ px < py
        \/ px = py /\ MOCK_PRODUCTS[x].stockNumber > MOCK_PRODUCTS[y].stockNumber

\* ORDER BY <min price> ASC, stockNumber DESC, product_code ASC; SQLite puts
\* NULL before every value under ASC
DbRowBefore(x, y) ==
    LET px == MinPositivePrice(MOCK_PRODUCTS[x])
        py == MinPositivePrice(MOCK_PRODUCTS[y])
        sx == MOCK_PRODUCTS[x].stockNumber
        sy == MOCK_PRODUCTS[y].stockNumber
    IN  \/ px < py
        \/ px = py /\ sx > sy
        \/ px = py /\ sx = sy /\ StrLess(x, y)

DbOrderTable == [x \in CatalogCodes |-> [y \in CatalogCodes |-> DbRowBefore(x, y)]]

\* the orders in which the SELECT may return the rows: no row comes after one
\* that the ORDER BY terms put behind it; rows the terms do not tell apart may
\* come in either order
DbRowOrders(rows) ==
    {order \in [1..Cardinality(rows) -> rows] :
        /\ Range(order) = rows
        /\ \A i, j \in DOMAIN order : i < j => ~DbOrderTable[order[j]][order[i]]}

\* LIMIT limit OFFSET offset: a negative limit is no limit, a negative offset is 0
SqlLimit(rows, limit, offset) ==
    LET skip == Max2(offset, 0)
        stop == IF limit < 0 THEN Len(rows) ELSE Min2(skip + limit, Len(rows))
    IN  SubSeq(rows, skip + 1, stop)

\* search_products(keyword, page, page_size): the responses it may give
DbSearch(table, raw_keyword, page, size) ==
    LET selected == {c \in Range(table) : DbWhereTable[raw_keyword][c]}
        offset == (page - 1) * size
    IN  {[op |-> "search", total |-> Cardinality(selected), current_page |-> page,
          page_size |-> size, productList |-> SqlLimit(order, size, offset)]
         : order \in DbRowOrders(selected)}

(***************************************************************************)
(* A paging session: one catalog snapshot, one query, one page size, the   *)
(* pages asked for in turn                                                 *)
(***************************************************************************)
Engines == {"server", "db"}

Catalogs == {q \in SeqsNoRepeat(CatalogCodes, MaxCatalog) : Distinct(q)}

CeilDiv(a, b) == (a + b - 1) \div b

\* every page up to ceil(total / page_size) has been fetched
SessionDone ==
    /\ session_page > 1
    /\ session_page > CeilDiv(resp.total, session_page_size)

QueryInit ==
    /\ confidence_threshold = DefaultThreshold
    /\ cache = <<>>
    /\ items = [i \in ItemIds |-> BOMItem(BomNames[i])]
    /\ remote = <<>>
    /\ last = NoCall
    /\ tpc = [t \in Threads |-> "idle"]
    /\ tloc = [t \in Threads |-> NoLocals]
    /\ engine \in Engines
    /\ db \in Catalogs
    /\ session_keyword \in Keywords
    /\ session_page_size \in 1..MaxPageSize
    /\ session_page = 1
    /\ fetched = <<>>
    /\ resp = [op |-> "none"]
    /\ probe = [op |-> "none"]
    /\ batch = NoBatch
    /\ NoUtil

Fetch(result) ==
    /\ probe.op = "none"
    /\ resp' = result
    /\ fetched' = fetched \o result.productList
    /\ session_page' = session_page + 1
    /\ UNCHANGED <<engine, db, session_keyword, session_page_size, probe,
                   matcherVars, threadVars, batchVars, utilVars>>

ServerFetch ==
    /\ engine = "server"
    /\ ~SessionDone
    /\ Fetch(ServerSearch(db, session_keyword, session_page, session_page_size))

DbFetch ==
    /\ engine = "db"
    /\ ~SessionDone
    /\ \E result \in DbSearch(db, session_keyword, session_page, session_page_size) :
           Fetch(result)

\* the pages and page sizes of single requests; zero and negative ones are what
\* a caller may send by mistake
ProbePages == (-1)..(MaxCatalog + 1)
ProbeSizes == {session_page_size, 0, -1}

\* one request, outside a paging session; `previous` keeps the response to the
\* request before it when that one asked for the same page and size
Query(page, size, response) ==
    /\ session_page = 1
    /\ probe' = [op |-> "query", page |-> page, page_size |-> size,
                 response |-> response,
                 previous |-> IF /\ probe.op = "query"
                                 /\ probe.page = page
                                 /\ probe.page_size = size
                              THEN probe.response ELSE [op |-> "none"]]
    /\ UNCHANGED <<engine, db, session_keyword, session_page_size, session_page,
                   fetched, resp, matcherVars, threadVars, batchVars, utilVars>>

ServerQuery ==
    \E page \in ProbePages, size \in ProbeSizes :
        /\ engine = "server"
        /\ Query(page, size, ServerSearch(db, session_keyword, page, size))

DbQuery ==
    \E page \in ProbePages, size \in ProbeSizes :
        /\ engine = "db"
        /\ \E response \in DbSearch(db, session_keyword, page, size) :
               Query(page, size, response)

QueryNext == ServerFetch \/ DbFetch \/ ServerQuery \/ DbQuery

SpecQuery == QueryInit /\ [][QueryNext]_vars

(***************************************************************************)
(* Properties of the catalog query                                         *)
(***************************************************************************)
\* the tokens of each search string
TokensTable == [kw \in Keywords |-> StrSplit(StrStrip(kw))]

QueryTokens == TokensTable[session_keyword]

KeywordMode == resp.op = "search" /\ Len(QueryTokens) >= 1
BrowseMode == resp.op = "search" /\ Len(QueryTokens) = 0

\* the match condition of one token on one record: on some field the token is a
\* substring, or its fuzzy ratio under the length gates is at least 0.75
TokenMatches(token, product) ==
    \E f \in Range(FieldNames) :
        LET field_value == normalize_text(FieldsOf(product)[f])
        IN  /\ Len(field_value) > 0
            /\ RatGe(FieldScore(normalize_text(token), field_value), FuzzyThreshold)

AllTokensMatchTable ==
    [kw \in Keywords |->
        [c \in CatalogCodes |->
            \A k \in DOMAIN TokensTable[kw] :
                TokenMatches(TokensTable[kw][k], MOCK_PRODUCTS[c])]]

\* C1: AND semantics.  In a query of k >= 1 tokens every record of the result
\* list meets the match condition for every token, and total counts no record
\* that fails it for some token.
C1_AndSemantics ==
    KeywordMode =>
        /\ \A k \in DOMAIN fetched : AllTokensMatchTable[session_keyword][fetched[k]]
        /\ resp.total <= Cardinality({c \in Range(db) :
                                         AllTokensMatchTable[session_keyword][c]})

\* the records the engine of this session selects for its query
Selected ==
    IF engine = "server"
    THEN {c \in Range(db) : RatGt(ServerScoreTable[session_keyword][c], RatInt(0))}
    ELSE {c \in Range(db) : DbWhereTable[session_keyword][c]}

\* C2: for a fixed catalog, query and page_size >= 1 the pages
\* 1..ceil(total/page_size) concatenated hold exactly total records, every
\* selected record exactly once.
C2_PagesConcatenate ==
    SessionDone =>
        /\ Len(fetched) = resp.total
        /\ Distinct(fetched)
        /\ Range(fetched) = Selected

C2_Witness ==
    /\ SessionDone
    /\ session_page >= 3
    /\ Len(fetched) >= 2
    /\ session_page_size < Len(fetched)

StockOf(c) == MOCK_PRODUCTS[c].stockNumber

\* the keyword-mode ordering key: score descending, stock descending, code ascending
KeywordBefore(x, y) ==
    LET sx == ServerScoreTable[session_keyword][x]
        sy == ServerScoreTable[session_keyword][y]
    IN  \/ RatGt(sx, sy)
        \/ sx = sy /\ StockOf(x) > StockOf(y)
        \/ sx = sy /\ StockOf(x) = StockOf(y) /\ StrLess(x, y)

\* C3: with at least one token the result list is ordered by aggregate score
\* descending, then stock descending, then code ascending.
C3_KeywordOrdering ==
    KeywordMode =>
        \A i, j \in DOMAIN fetched : i < j => KeywordBefore(fetched[i], fetched[j])

HasPositivePrice(c) == PositivePrices(MOCK_PRODUCTS[c]) # {}

\* the unit price of the tier with the highest minimum quantity among the tiers
\* with a positive price
BestBulkPrice(c) ==
    LET tiers == MOCK_PRODUCTS[c].productPriceList
        positive == {k \in DOMAIN tiers : tiers[k][2] > 0}
        top == CHOOSE k \in positive : \A j \in positive : tiers[k][1] >= tiers[j][1]
    IN  tiers[top][2]

BrowseBefore(x, y) ==
    \/ BestBulkPrice(x) < BestBulkPrice(y)
    \/ BestBulkPrice(x) = BestBulkPrice(y) /\ StockOf(x) > StockOf(y)
    \/ BestBulkPrice(x) = BestBulkPrice(y) /\ StockOf(x) = StockOf(y) /\ StrLess(x, y)

\* C4: with no tokens the records are ordered ascending by best bulk price (the
\* price at the highest-quantity tier with a positive price), then stock
\* descending, then code ascending.
C4_BrowseOrdering ==
    BrowseMode =>
        \A i, j \in DOMAIN fetched :
            (i < j /\ HasPositivePrice(fetched[i]) /\ HasPositivePrice(fetched[j]))
                => BrowseBefore(fetched[i], fetched[j])

\* C5: with no tokens every record without a positive-price tier comes after
\* every record that has one.
C5_UnpricedLast ==
    BrowseMode =>
        \A i, j \in DOMAIN fetched :
            (i < j /\ HasPositivePrice(fetched[j])) => HasPositivePrice(fetched[i])

(***************************************************************************)
(* Properties of match_item                                                *)
(***************************************************************************)
\* the text of the last call, and what the lookup of that call returned
LastName == items[last.item].stock_part_name
LastCandidates == ClientSearch(LastName, last.max_alternatives + 5).products
LastScoreOf(k) == ScoreTable[LastName][LastCandidates[k]]

\* rank of candidate k in the score-descending list, earlier candidates first
\* among equal scores
RankOf(k) ==
    1 + Cardinality({j \in DOMAIN LastCandidates :
                        \/ RatGt(LastScoreOf(j), LastScoreOf(k))
                        \/ (LastScoreOf(j) = LastScoreOf(k) /\ j < k)})
AtRank(r) == LastCandidates[CHOOSE k \in DOMAIN LastCandidates : RankOf(k) = r]

LastScored == last.op = "match" /\ last.outcome = "scored"
BestScore == LastScoreOf(CHOOSE k \in DOMAIN LastCandidates : RankOf(k) = 1)
BelowThreshold == RatLt(BestScore, RatInt(confidence_threshold))

\* C6: after a lookup that returned candidates, the result selects the best
\* candidate with method exact (score 100) or fuzzy exactly when the best score
\* is >= confidence_threshold; otherwise it selects nothing and has method
\* none; match_score is the best score either way.
C6_ThresholdGate ==
    LastScored =>
        /\ last.result.match_score = BestScore
        /\ ~BelowThreshold =>
              /\ last.result.lcsc_product = AtRank(1)
              /\ last.result.match_method =
                    IF BestScore = RatInt(100) THEN "exact" ELSE "fuzzy"
        /\ BelowThreshold =>
              /\ last.result.lcsc_product = NoProduct
              /\ last.result.match_method = "none"

\* a best candidate scoring exactly the threshold was accepted
C6_Witness ==
    /\ LastScored
    /\ BestScore = RatInt(confidence_threshold)
    /\ last.result.lcsc_product = AtRank(1)
    /\ last.result.match_method = "fuzzy"

\* C7 as claimed: a best candidate below the threshold gives method none and
\* still appears in the alternatives.
C7_BestStillInAlternatives ==
    (LastScored /\ BelowThreshold) =>
        /\ last.result.match_method = "none"
        /\ AtRank(1) \in Range(last.result.alternatives)

\* C7 amended: a best candidate below the threshold gives method none and no
\* selected record, and it is not among the alternatives.
C7_BestDroppedBelowThreshold ==
    (LastScored /\ BelowThreshold) =>
        /\ last.result.match_method = "none"
        /\ last.result.lcsc_product = NoProduct
        /\ AtRank(1) \notin Range(last.result.alternatives)

\* a rejected best candidate while the result does carry alternatives
C7_Witness ==
    /\ LastScored
    /\ BelowThreshold
    /\ Len(last.result.alternatives) > 0

NormText(i) == KeyTable[BomNames[i]]
SameTextCalls ==
    /\ last.op = "match"
    /\ last'.op = "match"
    /\ NormText(last.item) = NormText(last'.item)

\* C9 as claimed: of two match calls in a row with the same normalized text, the
\* second returns an equal result and performs no lookup.
C9_SecondCallFromCache ==
    [][SameTextCalls => (last'.result = last.result /\ ~last'.lookup)]_vars

\* C9 amended: the same, provided the first call did not end in a lookup error.
C9_SecondCallFromCacheUnlessError ==
    [][(SameTextCalls /\ last.outcome # "error")
          => (last'.result = last.result /\ ~last'.lookup)]_vars

\* a call served from the cache that an item with another raw text filled
C9_Witness ==
    /\ last.op = "match"
    /\ last.outcome = "hit"
    /\ last.result.bom_item # last.item
    /\ BomNames[last.result.bom_item] # BomNames[last.item]
    /\ is_matched(last.result)

\* the threads that are past a cache miss and have not yet written the cache
Computing(key) ==
    {t \in Threads : tpc[t] \in {"lookup", "score"} /\ CacheKey(tloc[t].item) = key}

\* C10: at no time are two match calls for the same normalized text both in the
\* lookup-and-scoring part of match_item.
C10_AtMostOneComputePerKey ==
    \A i \in ItemIds : Cardinality(Computing(CacheKey(i))) <= 1

\* C11: a match call whose lookup or scoring raises returns a result with method
\* error, score 0 and no selected record, leaves the cache as it was, and the
\* next match call with the same text performs the lookup again.
C11_ErrorNotCached ==
    /\ [][(last'.op = "match" /\ last'.outcome = "error")
            => /\ last'.result.match_method = "error"
               /\ last'.result.match_score = RatInt(0)
               /\ last'.result.lcsc_product = NoProduct
               /\ cache' = cache
               /\ last'.key \notin DOMAIN cache']_vars
    /\ [][(SameTextCalls /\ last.outcome = "error") => last'.lookup]_vars

\* a call that looked the text up again, and found candidates, on an item whose
\* earlier call had failed, while the cache held another text
C11_Witness ==
    /\ last.op = "match"
    /\ last.outcome = "scored"
    /\ items[last.item].notes = "Error"
    /\ Cardinality(DOMAIN cache) >= 2

BatchDone == batch.pc = "done"

\* C12: batch_match over n lines returns n results, the i-th of them the result
\* of the i-th line and carrying that line, also when lookups fail; a failing
\* line gives an error result and the lines after it are still matched.
C12_OneResultPerLine ==
    BatchDone =>
        /\ Len(batch.results) = batch.total
        /\ \A k \in 1..batch.total : batch.results[k].bom_item = batch.bom_items[k]

\* what the trace of a batch with a callback holds at position j: line k is
\* matched at 2k-1 and reported at 2k
ExpectedTrace(j) ==
    LET k == (j + 1) \div 2
    IN  IF j % 2 = 1 THEN <<"match", k>>
        ELSE <<"callback", k, batch.total, BomNames[batch.bom_items[k]]>>

\* C16: batch_match with a progress callback over n lines calls it n times, the
\* i-th call after line i is matched and before line i+1 is started, with the
\* arguments (i, n, text of line i).
C16_CallbackAfterEachLine ==
    (batch.pc # "idle" /\ batch.progress_callback) =>
        /\ \A j \in DOMAIN batch.trace : batch.trace[j] = ExpectedTrace(j)
        /\ BatchDone => Len(batch.trace) = 2 * batch.total

\* a finished batch of several lines with a callback, one line failing and one
\* served from the cache
C16_Witness ==
    /\ BatchDone
    /\ batch.progress_callback
    /\ batch.total >= 3
    /\ \E k \in 1..batch.total : batch.results[k].match_method = "error"
    /\ \E k \in 1..batch.total : batch.results[k].bom_item # batch.bom_items[k]

\* C13: when the lookup returns no candidates the result has score 0, method
\* none, no selected record and no alternatives, and the cache holds it under
\* the lowercased and trimmed text.
C13_NoCandidatesCached ==
    (last.op = "match" /\ last.lookup /\ last.outcome # "error"
        /\ Len(LastCandidates) = 0) =>
        /\ last.result.match_score = RatInt(0)
        /\ last.result.match_method = "none"
        /\ last.result.lcsc_product = NoProduct
        /\ last.result.alternatives = <<>>
        /\ NormText(last.item) \in DOMAIN cache
        /\ cache[NormText(last.item)] = last.result

\* an empty lookup for a text that needs trimming, cached under the trimmed key
C13_Witness ==
    /\ last.op = "match"
    /\ last.outcome = "empty"
    /\ BomNames[last.item] # NormText(last.item)
    /\ cache[NormText(last.item)].match_method = "none"

C15_BomLineReadOnly ==
    [][last'.op = "match" => items'[last'.item] = items[last'.item]]_vars

\* the method a matcher with the given threshold returns for the last line and
\* the candidates of the last lookup
MethodUnder(threshold) ==
    IF ~AcceptedAt(BestScore, threshold) THEN "none"
    ELSE IF BestScore = RatInt(100) THEN "exact" ELSE "fuzzy"

\* C17: for a fixed catalog and BOM line, a best candidate rejected (method none)
\* under confidence_threshold t is rejected under every threshold t' >= t.
C17_ThresholdMonotone ==
    (LastScored /\ last.result.match_method = "none") =>
        /\ MethodUnder(confidence_threshold) = "none"
        /\ \A t \in Thresholds : t >= confidence_threshold => MethodUnder(t) = "none"

\* a best candidate rejected under the lower threshold, with a higher one to compare
C17_Witness ==
    /\ LastScored
    /\ last.result.match_method = "none"
    /\ RatGt(BestScore, RatInt(0))
    /\ \E t \in Thresholds : t > confidence_threshold

Queried == probe.op = "query"
ValidRequest == probe.page >= 1 /\ probe.page_size >= 1

\* C18: a request for a page whose start offset (page-1)*page_size is at or
\* beyond the number of selected records is answered, without an error, by an
\* empty record list and the correct total.
C18_PagePastEnd ==
    (Queried /\ ValidRequest
        /\ (probe.page - 1) * probe.page_size >= Cardinality(Selected)) =>
        /\ probe.response.op = "search"
        /\ probe.response.productList = <<>>
        /\ probe.response.total = Cardinality(Selected)

\* a page past the end of a result that is not empty
C18_Witness ==
    /\ Queried
    /\ ValidRequest
    /\ Cardinality(Selected) >= 2
    /\ (probe.page - 1) * probe.page_size >= Cardinality(Selected)
    /\ probe.response.productList = <<>>

\* C19: a request with a zero or negative page, or a zero or negative page
\* size, is rejected and yields no records.
C19_InvalidRequestRejected ==
    (Queried /\ ~ValidRequest) =>
        /\ probe.response.op = "rejected"
        /\ probe.response.productList = <<>>

\* C20: a request repeated with the same catalog, tokens, page and page size is
\* answered with the same total and the same records in the same order.
C20_Deterministic ==
    (Queried /\ probe.previous.op # "none") =>
        /\ probe.response.total = probe.previous.total
        /\ probe.response.productList = probe.previous.productList

\* a repeated request whose page holds two records that only the product code
\* tells apart in the ORDER BY of the database
C20_Witness ==
    /\ Queried
    /\ probe.previous.op # "none"
    /\ engine = "db"
    /\ probe.response.productList = <<"C2", "C5">>

(***************************************************************************)
(* normalize_text on its own (mock_lcsc_server.py, lines 684-696)          *)
(***************************************************************************)
MaxText == 3

\* the characters of the texts: letters of both cases, a blank, the six glyphs
\* ( # micro, ^ degree, ~ plus-minus, [ capital omega, { <=, } >= ) and two of the
\* characters a mis-decoded glyph is made of ( ! a-circumflex, & copyright )
TextChars == <<"a", "U", " ", "#", "^", "~", "[", "{", "}", "!", "&">>

RECURSIVE TextsOfLen(_)
TextsOfLen(n) ==
    IF n = 0 THEN {""}
    ELSE {t \o TextChars[k] : t \in TextsOfLen(n - 1), k \in DOMAIN TextChars}

Texts == UNION {TextsOfLen(n) : n \in 0..MaxText}

\* what a glyph reads as when its UTF-8 bytes are decoded as cp1252
\*   micro C2 B5, degree C2 B0, plus-minus C2 B1: capital a-circumflex, then the glyph
\*   capital omega CE A9: capital i-circumflex, copyright
\*   <= E2 89 A4: a-circumflex, per-mille, currency;  >= E2 89 A5: ..., yen
Glyphs == {"#", "^", "~", "[", "{", "}"}

MisDecodedChar(c) ==
    CASE c = "#" -> "_#"
      [] c = "^" -> "_^"
      [] c = "~" -> "_~"
      [] c = "[" -> "]&"
      [] c = "{" -> "!%*"
      [] c = "}" -> "!%|"
      [] OTHER -> c

RECURSIVE MisDecoded(_)
MisDecoded(s) ==
    IF Len(s) = 0 THEN ""
    ELSE MisDecodedChar(Char(s, 1)) \o MisDecoded(SubSeq(s, 2, Len(s)))

\* the text is made of ASCII characters and correctly encoded glyphs only
CorrectlyEncoded(s) == \A k \in 1..Len(s) : Char(s, k) \notin {"!", "&"}

NormalizeCall(kind, arg) ==
    /\ norm_calls' = Append(norm_calls,
                            [of |-> kind, arg |-> arg, result |-> normalize_text(arg)])
    /\ UNCHANGED <<norm_text, scoreVars, historyVars, clientVars, pagerVars, matcherVars,
                   threadVars, queryVars, batchVars>>

\* normalize_text(text)
NormalizeText ==
    /\ Len(norm_calls) = 0
    /\ NormalizeCall("text", norm_text)

\* normalize_text applied to what the first call returned
NormalizeResult ==
    /\ Len(norm_calls) = 1
    /\ NormalizeCall("result", norm_calls[1].result)

\* normalize_text applied to the same text after a round of mis-decoding
NormalizeMisDecoded ==
    /\ Len(norm_calls) = 1
    /\ CorrectlyEncoded(norm_text)
    /\ NormalizeCall("misdecoded", MisDecoded(norm_text))

\* the matcher and the catalog session are not in use
MatcherIdle ==
    /\ confidence_threshold = DefaultThreshold
    /\ cache = <<>>
    /\ items = [i \in ItemIds |-> BOMItem(BomNames[i])]
    /\ remote = <<>>
    /\ last = NoCall
    /\ tpc = [t \in Threads |-> "idle"]
    /\ tloc = [t \in Threads |-> NoLocals]
    /\ NoSession
    /\ batch = NoBatch

NormalizeInit ==
    /\ MatcherIdle
    /\ norm_text \in Texts
    /\ norm_calls = <<>>
    /\ scoring = NoScoring
    /\ NoHistory
    /\ client = NoClient
    /\ pager = NoPager

NormalizeNext == NormalizeText \/ NormalizeResult \/ NormalizeMisDecoded

SpecNormalize == NormalizeInit /\ [][NormalizeNext]_vars

\* C21: normalize_text is idempotent: applied to its own result it returns that
\* result unchanged.
C21_NormalizeIdempotent ==
    \A k \in DOMAIN norm_calls :
        norm_calls[k].of = "result" => norm_calls[k].result = norm_calls[k].arg

\* the second call was made on a result that differs from the text in case, in a
\* glyph and in its blanks
C21_Witness ==
    /\ norm_text = "U# "
    /\ Len(norm_calls) = 2
    /\ norm_calls[2].of = "result"
    /\ norm_calls[2].arg = "uu"

\* C26: a mis-decoded glyph normalizes to what the glyph itself normalizes to.
C26_MisDecodedGlyphSameOutput ==
    \A k \in DOMAIN norm_calls :
        (norm_calls[k].of = "misdecoded" /\ norm_text \in Glyphs)
            => norm_calls[k].result = norm_calls[1].result

(***************************************************************************)
(* The scoring pass of search_products (mock_lcsc_server.py, lines 802-814) *)
(***************************************************************************)
\* the search strings of the scoring passes
ScoreKeywords == {"10K0603", "1070", "10k 0805", "0603 1uu603", "cap"}

ScoreKeywordsTable == [kw \in ScoreKeywords |-> ServerKeywords(kw)]

\* score_product for every search string and product of the pool, computed once
ScoringTable ==
    [kw \in ScoreKeywords |->
        [c \in CatalogCodes |-> score_product(MOCK_PRODUCTS[c], ScoreKeywordsTable[kw])]]

ScoringInit ==
    /\ MatcherIdle
    /\ NoText
    /\ NoHistory
    /\ client = NoClient
    /\ pager = NoPager
    /\ \E kw \in ScoreKeywords, catalog \in Catalogs :
           scoring = [pc |-> "loop", keyword |-> kw, db |-> catalog, pos |-> 1,
                      scored_results |-> <<>>]

\* lines 806-811: score = score_product(product, keywords); if score > 0: append
ScoreProduct ==
    /\ scoring.pc = "loop"
    /\ scoring.pos <= Len(scoring.db)
    /\ LET code == scoring.db[scoring.pos]
           score == ScoringTable[scoring.keyword][code]
       IN  scoring' = [scoring EXCEPT
                          !.pos = @ + 1,
                          !.scored_results =
                              IF RatGt(score, RatInt(0)) THEN Append(@, <<code, score>>)
                              ELSE @]
    /\ UNCHANGED <<textVars, historyVars, clientVars, pagerVars, matcherVars, threadVars,
                   queryVars, batchVars>>

\* line 814: scored_results.sort(reverse=True, key=lambda x: x[0])
ScoreSort ==
    /\ scoring.pc = "loop"
    /\ scoring.pos > Len(scoring.db)
    /\ scoring' = [scoring EXCEPT !.pc = "sorted",
                                  !.scored_results = SortByScoreDesc(@)]
    /\ UNCHANGED <<textVars, historyVars, clientVars, pagerVars, matcherVars, threadVars,
                   queryVars, batchVars>>

ScoringNext == ScoreProduct \/ ScoreSort

SpecScoring == ScoringInit /\ [][ScoringNext]_vars

\* the token is a substring of some field of the record
ExactOn(token, product) ==
    \E f \in Range(FieldNames) :
        StrIn(normalize_text(token), normalize_text(FieldsOf(product)[f]))

ScoreTokenMatchTable ==
    [kw \in ScoreKeywords |->
        [c \in CatalogCodes |->
            [k \in DOMAIN ScoreKeywordsTable[kw] |->
                [exact |-> ExactOn(ScoreKeywordsTable[kw][k], MOCK_PRODUCTS[c]),
                 matches |-> TokenMatches(ScoreKeywordsTable[kw][k], MOCK_PRODUCTS[c])]]]]

\* C24: a record is kept by the scoring pass only if every token is a substring
\* of one of its fields or has an unweighted ratio of at least 0.75 against a
\* field or one of its words; the field weights do not make a match.
C24_WeightsAfterMatchDecision ==
    scoring.pc # "idle" =>
        \A k \in DOMAIN scoring.scored_results :
            \A j \in DOMAIN ScoreKeywordsTable[scoring.keyword] :
                ScoreTokenMatchTable[scoring.keyword][scoring.scored_results[k][1]][j].matches

\* C25: a record that holds every token as a substring never scores lower than a
\* record of the same pass that matches some token only fuzzily.
C25_ExactDominatesFuzzy ==
    scoring.pc # "idle" =>
        \A a, b \in DOMAIN scoring.scored_results :
            LET exact(k) == \A j \in DOMAIN ScoreKeywordsTable[scoring.keyword] :
                                ScoreTokenMatchTable[scoring.keyword]
                                    [scoring.scored_results[k][1]][j].exact
            IN  (exact(a) /\ ~exact(b))
                    => RatGe(scoring.scored_results[a][2], scoring.scored_results[b][2])

(***************************************************************************)
(* gui/search_history.py: SearchHistoryManager                             *)
(***************************************************************************)
MaxHistory == 2

\* json.dump of one str: the quote, the backslash and the control characters
\* are escaped (ensure_ascii=False leaves every other character as it is)
JsonEscapeCharPlain(c) == c

JsonEscapeChar(c) ==
    CASE c = "\"" -> "\\\""
      [] c = "\\" -> "\\\\"
      [] c = "\n" -> "\\n"
      [] c = "\t" -> "\\t"
      [] OTHER -> c

RECURSIVE JsonEscape(_)
JsonEscape(s) ==
    IF Len(s) = 0 THEN ""
    ELSE JsonEscapeChar(Char(s, 1)) \o JsonEscape(SubSeq(s, 2, Len(s)))

RECURSIVE JsonItems(_)
JsonItems(list) ==
    IF Len(list) = 1 THEN "\"" \o JsonEscape(list[1]) \o "\""
    ELSE "\"" \o JsonEscape(list[1]) \o "\",\n  " \o JsonItems(Tail(list))

\* line 57: json.dump(self.history, f, indent=2, ensure_ascii=False)
JsonDumpList(list) ==
    IF Len(list) = 0 THEN "[]" ELSE "[\n  " \o JsonItems(list) \o "\n]"

JsonError == [ok |-> FALSE]

\* json.load of a document that is a list of strings; anything else the scan
\* meets is a JSONDecodeError
RECURSIVE JsonScan(_, _, _, _, _)
JsonScan(doc, at, state, items_read, item) ==
    The({IF pos > Len(doc)
         THEN (IF mode = "end" THEN [ok |-> TRUE, data |-> acc] ELSE JsonError)
         ELSE The({
              CASE mode = "start" ->
                       IF IsSpace(c) THEN JsonScan(doc, pos + 1, "start", acc, cur)
                       ELSE IF c = "[" THEN JsonScan(doc, pos + 1, "first", acc, cur)
                       ELSE JsonError
                [] mode \in {"first", "item"} ->
                       IF IsSpace(c) THEN JsonScan(doc, pos + 1, mode, acc, cur)
                       ELSE IF c = "\"" THEN JsonScan(doc, pos + 1, "in", acc, "")
                       ELSE IF c = "]" /\ mode = "first"
                       THEN JsonScan(doc, pos + 1, "end", acc, cur)
                       ELSE JsonError
                [] mode = "in" ->
                       IF c = "\"" THEN JsonScan(doc, pos + 1, "after", Append(acc, cur), "")
                       ELSE IF c = "\\" THEN JsonScan(doc, pos + 1, "esc", acc, cur)
                       ELSE IF c \in {"\n", "\t"} THEN JsonError
                       ELSE JsonScan(doc, pos + 1, "in", acc, cur \o c)
                [] mode = "esc" ->
                       IF c \in {"\"", "\\", "/"}
                       THEN JsonScan(doc, pos + 1, "in", acc, cur \o c)
                       ELSE IF c = "n" THEN JsonScan(doc, pos + 1, "in", acc, cur \o "\n")
                       ELSE IF c = "t" THEN JsonScan(doc, pos + 1, "in", acc, cur \o "\t")
                       ELSE JsonError
                [] mode = "after" ->
                       IF IsSpace(c) THEN JsonScan(doc, pos + 1, "after", acc, cur)
                       ELSE IF c = "," THEN JsonScan(doc, pos + 1, "item", acc, cur)
                       ELSE IF c = "]" THEN JsonScan(doc, pos + 1, "end", acc, cur)
                       ELSE JsonError
                [] OTHER ->
                       IF IsSpace(c) THEN JsonScan(doc, pos + 1, "end", acc, cur)
                       ELSE JsonError
              : c \in {Char(doc, pos)}})
         : pos \in {at}, mode \in {state}, acc \in {items_read}, cur \in {item}})

JsonLoad(doc) == JsonScan(doc, 1, "start", <<>>, "")

\* lines 39-51: _load_history
_load_history(file) ==
    IF ~file.exists THEN <<>>
    ELSE The({IF ~loaded.ok THEN <<>>
              ELSE SelectSeq(loaded.data,
                             LAMBDA entry : Len(entry) > 0 /\ Len(StrStrip(entry)) > 0)
              : loaded \in {JsonLoad(file.content)}})

\* lines 53-59: _save_history
_save_history(list) == [exists |-> TRUE, content |-> JsonDumpList(list)]

\* list.remove(x): drops the first occurrence
RECURSIVE ListRemove(_, _)
ListRemove(list, x) ==
    IF Len(list) = 0 THEN list
    ELSE IF Head(list) = x THEN Tail(list)
    ELSE <<Head(list)>> \o ListRemove(Tail(list), x)

InList(x, list) == \E k \in DOMAIN list : list[k] = x

\* the terms the calls are made with: valid ones, one that needs stripping, one
\* with a quote, a blank one and one that is too short
AddTerms == {"ab", " ab ", "cd", "e\"f", "  ", "a"}
RemoveTerms == {"ab", "cd", " ab "}

\* lines 81-82 with the cut left out
TrimNever(list, limit) == list

\* lines 81-82: if len(self.history) > self.max_history: self.history[:max_history]
Trim(list, limit) == IF Len(list) > limit THEN PySlice(list, 0, limit) ELSE list

\* lines 61-85
add_search(raw_term) ==
    LET search_term == StrStrip(raw_term)
    IN  /\ reopened = NoManager
        /\ IF Len(search_term) = 0 \/ Len(search_term) < 2
           THEN /\ UNCHANGED <<history, history_file>>
                /\ history_log' = [history_log EXCEPT !.call = <<"add", raw_term>>]
           ELSE LET removed == IF InList(search_term, history)
                               THEN ListRemove(history, search_term) ELSE history
                    trimmed == Trim(<<search_term>> \o removed, max_history)
                IN  /\ history' = trimmed
                    /\ history_file' = _save_history(trimmed)
                    /\ history_log' =
                           [call |-> <<"add", raw_term>>,
                            recency |-> <<search_term>>
                                        \o SelectSeq(history_log.recency,
                                                     LAMBDA x : x # search_term)]
        /\ UNCHANGED <<max_history, reopened, textVars, scoreVars, clientVars, pagerVars,
                       matcherVars, threadVars, queryVars, batchVars>>

AddSearch == \E raw_term \in AddTerms : add_search(raw_term)

\* lines 96-105
remove_search(search_term) ==
    /\ reopened = NoManager
    /\ IF InList(search_term, history)
       THEN /\ history' = ListRemove(history, search_term)
            /\ history_file' = _save_history(ListRemove(history, search_term))
       ELSE UNCHANGED <<history, history_file>>
    /\ history_log' = [history_log EXCEPT !.call = <<"remove", search_term>>]
    /\ UNCHANGED <<max_history, reopened, textVars, scoreVars, clientVars, pagerVars,
                   matcherVars, threadVars, queryVars, batchVars>>

RemoveSearch == \E search_term \in RemoveTerms : remove_search(search_term)

\* lines 91-94
clear_history ==
    /\ reopened = NoManager
    /\ history' = <<>>
    /\ history_file' = _save_history(<<>>)
    /\ history_log' = [history_log EXCEPT !.call = <<"clear">>]
    /\ UNCHANGED <<max_history, reopened, textVars, scoreVars, clientVars, pagerVars,
                   matcherVars, threadVars, queryVars, batchVars>>

\* lines 13-37: SearchHistoryManager(config_dir, max_history) on the same directory
Reopen ==
    /\ reopened = NoManager
    /\ reopened' = [constructed |-> TRUE, max_history |-> max_history,
                    history |-> _load_history(history_file)]
    /\ UNCHANGED <<max_history, history, history_file, history_log, textVars, scoreVars,
                   clientVars, pagerVars, matcherVars, threadVars, queryVars, batchVars>>

\* the manager is constructed on a directory without a history file, or with one
\* that is not JSON
HistoryInit ==
    /\ MatcherIdle
    /\ NoText
    /\ scoring = NoScoring
    /\ client = NoClient
    /\ pager = NoPager
    /\ max_history \in 0..MaxHistory
    /\ history_file \in {NoFile, [exists |-> TRUE, content |-> "{"]}
    /\ history = _load_history(history_file)
    /\ reopened = NoManager
    /\ history_log = [call |-> <<"none">>, recency |-> <<>>]

HistoryNext == AddSearch \/ RemoveSearch \/ clear_history \/ Reopen

SpecHistory == HistoryInit /\ [][HistoryNext]_vars

\* the term of the recency list that is the most recently added one among those
\* still in the history
MostRecentPresent ==
    LET present == SelectSeq(history_log.recency, LAMBDA x : InList(x, history))
    IN  present[1]

\* C22: the history holds no term twice, holds at most max_history terms, and
\* starts with the most recently added valid term that is still in it; adding a
\* term that is already in the history puts it first and keeps the length.
C22_HistoryRecency ==
    /\ [](/\ Distinct(history)
          /\ Len(history) <= max_history
          /\ Len(history) > 0 => history[1] = MostRecentPresent)
    /\ [][\A raw_term \in AddTerms :
            (/\ history_log'.call = <<"add", raw_term>>
             /\ InList(StrStrip(raw_term), history))
                => /\ history'[1] = StrStrip(raw_term)
                   /\ Len(history') = Len(history)]_vars

\* a term was added again, after another term had been cut off at max_history
C22_Witness ==
    /\ history_log.call = <<"add", " ab ">>
    /\ history_log.recency = <<"ab", "cd", "e\"f">>
    /\ history = <<"ab", "cd">>
    /\ max_history = 2

C27_ResultRefersToPassedItem ==
    last.op = "match" =>
        /\ last.result.bom_item = last.item
        /\ is_matched(last.result) =>
               LET bom_item == items[last.item]
                   product == Products[last.result.lcsc_product]
               IN  /\ bom_item.lcsc_part_number = product.product_number
                   /\ bom_item.manufacturer = product.manufacturer
                   /\ bom_item.mpn = product.manufacturer_part
                   /\ bom_item.description = product.description
                   /\ bom_item.match_confidence = last.result.match_score

\* C28: the result of match_item(bom_item, max_alternatives) holds at most
\* max(0, max_alternatives - 1) alternatives, on a cache hit as on a miss.
C28_AlternativesWithinCallLimit ==
    last.op = "match" =>
        Len(last.result.alternatives) <= Max2(0, last.max_alternatives - 1)

(***************************************************************************)
(* api/client.py: LCSCClient.search_products, page after page, against the *)
(* pagination of the mock server                                           *)
(***************************************************************************)
\* client.py line 50 (the default) and the mock server
BaseUrls == {"https://www.lcsc.com", "http://localhost:5000"}

\* line 189: the cap on the page size sent
LocalMaxPageSize == 1000
MaxPageSizeFor(base_url) ==
    IF StrIn("localhost", base_url) \/ StrIn("127.0.0.1", base_url)
    THEN LocalMaxPageSize ELSE max_page_size

\* how many records of the catalog match the query, and the page sizes asked for
MatchingTotals == {0, 3, 101, 1001}
RequestedPageSizes == {2, 50, 100, 101, 1000, 1001}

\* the matching records in the order the server has sorted them
MatchingRecords(total) == [k \in 1..total |-> k]

\* mock_lcsc_server.py lines 819-834: the page of the sorted results
ServerPage(results, current_page, size) ==
    LET start == (current_page - 1) * size
    IN  [total |-> Len(results), current_page |-> current_page, page_size |-> size,
         productList |-> PySlice(results, start, PageEnd(start, size))]

\* lines 206-211: SearchResult(products, total, current_page, page_size)
SearchResult(response, current_page, page_size) ==
    [products |-> response.productList, total |-> response.total,
     current_page |-> current_page, page_size |-> page_size]

\* lines 162-211
search_products(base_url, results, current_page, page_size) ==
    LET sent == Min2(page_size, MaxPageSizeFor(base_url))
    IN  SearchResult(ServerPage(results, current_page, sent), current_page, page_size)

\* models.py lines 100-105
total_pages(result) ==
    IF result.page_size = 0 THEN 0
    ELSE (result.total + result.page_size - 1) \div result.page_size

\* models.py lines 107-110
has_more(result) == result.current_page < total_pages(result)

ClientInit ==
    /\ MatcherIdle
    /\ NoText
    /\ scoring = NoScoring
    /\ NoHistory
    /\ pager = NoPager
    /\ \E base_url \in BaseUrls, total \in MatchingTotals, page_size \in RequestedPageSizes :
           client = [pc |-> "paging", base_url |-> base_url, total |-> total,
                     page_size |-> page_size, next_page |-> 1, fetched |-> <<>>,
                     result |-> [products |-> <<>>, total |-> 0, current_page |-> 0,
                                 page_size |-> page_size]]

\* the caller asks for page 1, then for every page up to result.total_pages
ClientFetch ==
    /\ client.pc = "paging"
    /\ IF client.next_page = 1 THEN TRUE
       ELSE client.next_page <= total_pages(client.result)
    /\ LET result == search_products(client.base_url, MatchingRecords(client.total),
                                     client.next_page, client.page_size)
       IN  client' = [client EXCEPT !.result = result,
                                    !.fetched = @ \o result.products,
                                    !.next_page = @ + 1]
    /\ UNCHANGED <<textVars, scoreVars, historyVars, pagerVars, matcherVars, threadVars,
                   queryVars, batchVars>>

\* the caller has received page result.total_pages
ClientDone ==
    /\ client.pc = "paging"
    /\ client.next_page > 1
    /\ client.next_page > total_pages(client.result)
    /\ client' = [client EXCEPT !.pc = "done"]
    /\ UNCHANGED <<textVars, scoreVars, historyVars, pagerVars, matcherVars, threadVars,
                   queryVars, batchVars>>

ClientNext == ClientFetch \/ ClientDone

SpecClient == ClientInit /\ [][ClientNext]_vars

\* C29: for every page size >= 1, above the cap or not, the pages
\* 1..total_pages hold each matching record exactly once, and has_more is true
\* exactly when records remain after the current page.
C29_ClientPaginationConsistent ==
    /\ client.pc = "done" => client.fetched = MatchingRecords(client.total)
    /\ (client.pc # "idle" /\ client.next_page > 1) =>
           (has_more(client.result) <=> Len(client.fetched) < client.total)

(***************************************************************************)
(* gui/stock_browser.py: StockBrowserWindow._create_page_buttons           *)
(***************************************************************************)
MaxPages == 12

\* line 696: max_buttons = 5
max_buttons == 5

\* lines 699-702 without the adjustment of lines 704-712
PageRangeUnadjusted(current_page, pages) ==
    LET half_range == max_buttons \div 2
    IN  <<Max2(1, current_page - half_range), Min2(pages, current_page + half_range)>>

\* lines 699-712: start_page and end_page
PageRange(current_page, pages) ==
    LET half_range == max_buttons \div 2
        start_page == Max2(1, current_page - half_range)
        end_page == Min2(pages, current_page + half_range)
    IN  IF end_page - start_page + 1 < max_buttons
        THEN IF start_page = 1
             THEN <<start_page, Min2(pages, start_page + max_buttons - 1)>>
             ELSE IF end_page = pages
             THEN <<Max2(1, end_page - max_buttons + 1), end_page>>
             ELSE <<start_page, end_page>>
        ELSE <<start_page, end_page>>

\* range(start_page, end_page + 1)
PyRange(from, to) == [k \in 1..(to - from + 1) |-> from + k - 1]

\* lines 686-736: the page numbers of the buttons created
_create_page_buttons ==
    /\ pager.pc = "open"
    /\ pager' = [pager EXCEPT
                   !.pc = "shown",
                   !.page_buttons =
                       IF pager.total_pages <= 1 THEN <<>>
                       ELSE LET bounds == PageRange(pager.current_page, pager.total_pages)
                            IN  PyRange(bounds[1], bounds[2])]
    /\ UNCHANGED <<textVars, scoreVars, historyVars, clientVars, matcherVars, threadVars,
                   queryVars, batchVars>>

\* a window on some page of a result of up to MaxPages pages; without pages the
\* window stays on page 1
PagerInit ==
    /\ MatcherIdle
    /\ NoText
    /\ scoring = NoScoring
    /\ NoHistory
    /\ client = NoClient
    /\ \E pages \in 0..MaxPages :
           \E current_page \in 1..Max2(1, pages) :
               pager = [pc |-> "open", current_page |-> current_page,
                        total_pages |-> pages, page_buttons |-> <<>>]

PagerNext == _create_page_buttons

SpecPager == PagerInit /\ [][PagerNext]_vars

\* C30: with more than one page and the current page among them, the buttons
\* are consecutive page numbers within 1..total_pages, one of them the current
\* page, min(5, total_pages) in number; with at most one page there is none.
C30_PageButtonRange ==
    pager.pc = "shown" =>
        LET buttons == pager.page_buttons
        IN  IF pager.total_pages <= 1 THEN buttons = <<>>
            ELSE /\ Len(buttons) = Min2(5, pager.total_pages)
                 /\ \A k \in DOMAIN buttons : buttons[k] \in 1..pager.total_pages
                 /\ \A k \in 1..(Len(buttons) - 1) : buttons[k + 1] = buttons[k] + 1
                 /\ \E k \in DOMAIN buttons : buttons[k] = pager.current_page

\* the window is on the page before the last of more than five pages: the range
\* around it is cut at the end and extended to the left
C30_Witness ==
    /\ pager.pc = "shown"
    /\ pager.total_pages = 12
    /\ pager.current_page = 11
    /\ pager.page_buttons = <<8, 9, 10, 11, 12>>
====
